---- MODULE Spec2Model ----
(***************************************************************************)
(* Model of urbanworm.utils.tms_to_geotiff: tile download on a pool of 5   *)
(* worker threads, compositing in submission order, cropping, raster       *)
(* writing and optional reprojection / COG conversion.                     *)
(*                                                                         *)
(* Units.  Fractional tile coordinates (the results of deg2num) are kept   *)
(* as numerators over CoordDen.  Tile images are tsize x tsize pixels; a   *)
(* tile service serves tiles of one size, so tsize is one value per run.   *)
(* A pixel holds the number of the tile it was pasted from (the position   *)
(* of the tile's index in `corners`), or Blank.                            *)
(***************************************************************************)
EXTENDS Integers, Sequences, FiniteSets, TLC

----------------------------------------------------------------------------
(* Bounds of the model *)

\* fractional tile coordinates are multiples of 1/CoordDen
CoordDen == 2
\* width (in tiles) of the area the small bounding boxes are drawn from
MaxTilesX == 2
\* GET attempts that raise during one call (the environment's fault budget)
MaxFaults == 3
\* consecutive calls of tms_to_geotiff on the same output path
MaxCalls == 2
\* resolutions are the multiples n / d of the initial resolution with
\* n in -1..MaxRes and d in 1..MaxRes
MaxRes == 4
\* the zoom level of the tile grid the bounding boxes are drawn from
WorldZoom == 3

(* Program constants *)

\* ThreadPoolExecutor(5)
PoolSize == 5
\* get_tile: retry = 3
Retries == 3
\* base_size = [256, 256]
DefaultTileSize == 256

Blank == 0

----------------------------------------------------------------------------
(* Values *)

SourceKinds == {"named", "basemap", "http", "otherstr", "nonstr"}
BBoxKinds == {"list4", "list3", "tuple4"}
CrsNames == {"EPSG:3857", "epsg:3857", "EPSG:4326"}
StatusCodes == {200, 404, 403, 500}
\* response bodies: no bytes, bytes that are no image, and four kinds of image
Bodies == {"empty", "html", "rgb", "night", "rgba", "clear", "black"}
ImageBodies == {"rgb", "night", "rgba", "clear", "black"}
\* the images whose mode is RGB: "night" is one with every pixel black
RgbBodies == {"rgb", "night"}
TileSizes == {1, 2, 3}

NoneRes == [t |-> "none", body |-> "", id |-> 0]
Pending == [t |-> "pending", body |-> "", id |-> 0]
Raised(what) == [t |-> "exc", body |-> what, id |-> 0]
Content(b, i) == [t |-> "bytes", body |-> b, id |-> i]

NoImage == [mode |-> "none", w |-> 0, h |-> 0, px |-> <<>>]

Min(a, b) == IF a <= b THEN a ELSE b
Max(a, b) == IF a >= b THEN a ELSE b

\* math.floor and math.ceil of n/CoordDen (n >= 0)
Floor(n) == n \div CoordDen
Ceil(n) == (n + CoordDen - 1) \div CoordDen

\* Python's round() of the non-negative rational n/d: half goes to even
Round(n, d) ==
    LET q == n \div d
        r == n % d
    IN  IF 2 * r < d THEN q
        ELSE IF 2 * r > d THEN q + 1
        ELSE IF q % 2 = 0 THEN q ELSE q + 1

\* str.upper() on the CRS names of the model
Upper(c) == IF c = "epsg:3857" THEN "EPSG:3857" ELSE c

----------------------------------------------------------------------------
(* Pure functions of tms_to_geotiff *)

\* draw_tile: the index set in the order of itertools.product(range, range);
\* X0, Y0, X1, Y1 are the sorted fractional coordinates (numerators)
NumX(X0, X1) == Max(Ceil(X1) - Floor(X0), 0)
NumY(Y0, Y1) == Max(Ceil(Y1) - Floor(Y0), 0)

\* variant: math.floor for the end of both ranges
Corners_floors(X0, Y0, X1, Y1) ==
    [i \in 1..(Max(Floor(X1) - Floor(X0), 0) * Max(Floor(Y1) - Floor(Y0), 0)) |->
        << Floor(X0) + ((i - 1) \div Max(Floor(Y1) - Floor(Y0), 0)),
           Floor(Y0) + ((i - 1) % Max(Floor(Y1) - Floor(Y0), 0)) >>]

Corners(X0, Y0, X1, Y1) ==
    [i \in 1..(NumX(X0, X1) * NumY(Y0, Y1)) |->
        << Floor(X0) + ((i - 1) \div NumY(Y0, Y1)),
           Floor(Y0) + ((i - 1) % NumY(Y0, Y1)) >>]

\* draw_tile: bbox = (floor(x0), floor(y0), ceil(x1), ceil(y1))
TileBBox(X0, Y0, X1, Y1) == << Floor(X0), Floor(Y0), Ceil(X1), Ceil(Y1) >>

\* variant: a 404 is raised like every other error status
GetTileResult_404raises(r, i) ==
    IF r.body = "empty" THEN NoneRes
    ELSE IF r.status >= 400 THEN Raised("http")
    ELSE Content(r.body, i)

\* variant: raise_for_status comes before the test of the body
GetTileResult_statusfirst(r, i) ==
    IF r.status = 404 THEN NoneRes
    ELSE IF r.status >= 400 THEN Raised("http")
    ELSE IF r.body = "empty" THEN NoneRes
    ELSE Content(r.body, i)

\* get_tile after the retry loop: what a response r = [status, body] gives
\* for the tile number i
GetTileResult(r, i) ==
    IF r.status = 404 THEN NoneRes
    ELSE IF r.body = "empty" THEN NoneRes
    ELSE IF r.status >= 400 THEN Raised("http")
    ELSE Content(r.body, i)

\* Image.open(...).mode of the image bodies
ImMode(body) == IF body \in RgbBodies THEN "RGB" ELSE "RGBA"

\* im.getextrema() after the conversion to RGBA: one (min, max) per band
Extrema(body) ==
    CASE body = "rgba"  -> << <<0, 255>>, <<0, 255>>, <<0, 255>>, <<0, 255>> >>
      [] body = "clear" -> << <<0, 255>>, <<0, 255>>, <<0, 255>>, <<0, 0>> >>
      [] body = "black" -> << <<0, 0>>, <<0, 0>>, <<0, 0>>, <<255, 255>> >>
      [] body = "night" -> << <<0, 0>>, <<0, 0>>, <<0, 0>> >>
      [] OTHER          -> << <<0, 255>>, <<0, 255>>, <<0, 255>> >>

\* variant: only the alpha band decides
is_empty_alphaonly(body) ==
    LET extrema == Extrema(body)
    IN  Len(extrema) > 3 /\ extrema[Len(extrema)] = <<0, 0>>

is_empty(body) ==
    LET extrema == Extrema(body)
    IN  IF Len(extrema) >= 3
        THEN IF Len(extrema) > 3 /\ extrema[Len(extrema)] = <<0, 0>>
             THEN TRUE
             ELSE \A b \in 1..3 : extrema[b] = <<0, 0>>
        ELSE extrema[1] = <<0, 0>>

\* Image.open raises on bytes that are no image
Decodable(body) == body \in ImageBodies

\* Image.new(mode, (w, h)): every pixel blank
NewImage(mode, w, h) ==
    [mode |-> mode, w |-> w, h |-> h,
     px |-> [p \in (0..(w - 1)) \X (0..(h - 1)) |-> Blank]]

\* Image.paste(im, xy0) of a size x size image whose pixels are all `id`
Paste(canvas, id, size, xy0) ==
    [canvas EXCEPT !.px =
        [p \in DOMAIN canvas.px |->
            IF /\ p[1] >= xy0[1] /\ p[1] < xy0[1] + size
               /\ p[2] >= xy0[2] /\ p[2] < xy0[2] + size
            THEN id ELSE canvas.px[p]]]

\* variant: the two offsets swapped
PasteOffset_swapped(size, corner_xy, bbox) ==
    << size * (corner_xy[2] - bbox[2]), size * (corner_xy[1] - bbox[1]) >>

\* the pixel offset paste_tile computes for a tile of the given size
PasteOffset(size, corner_xy, bbox) ==
    LET dx == IF corner_xy[1] >= bbox[1] THEN corner_xy[1] - bbox[1]
              ELSE bbox[1] - corner_xy[1]
        dy == IF corner_xy[2] >= bbox[2] THEN corner_xy[2] - bbox[2]
              ELSE bbox[2] - corner_xy[2]
    IN  << size * dx, size * dy >>

\* paste_tile, for a tile that is bytes of an image of size x size pixels;
\* gives the canvas and base_size
paste_tile(canvas, base, tile, size, corner_xy, bbox) ==
    IF tile.t = "none" THEN [im |-> canvas, base |-> base]
    ELSE
      LET mode == ImMode(tile.body)
          newim == IF canvas.mode = "none"
                   THEN NewImage(mode, size * (bbox[3] - bbox[1]),
                                       size * (bbox[4] - bbox[2]))
                   ELSE canvas
          newbase == IF canvas.mode = "none" THEN <<size, size>> ELSE base
          xy0 == PasteOffset(size, corner_xy, bbox)
      IN  [im |-> IF mode = "RGB" THEN Paste(newim, tile.id, size, xy0)
                  ELSE IF ~is_empty(tile.body)
                       THEN Paste(newim, tile.id, size, xy0)
                       ELSE newim,
           base |-> newbase]

\* variant: int() in place of round()
CropBox_truncated(base, bbox, X0, Y0, X1, Y1) ==
    << (base[1] * (X0 - CoordDen * bbox[1])) \div CoordDen,
       (base[2] * (Y0 - CoordDen * bbox[2])) \div CoordDen,
       (base[1] * (X1 - X0)) \div CoordDen,
       (base[2] * (Y1 - Y0)) \div CoordDen >>

\* finish_picture: the crop box (x2, y2, imgw, imgh)
CropBox(base, bbox, X0, Y0, X1, Y1) ==
    << Round(base[1] * (X0 - CoordDen * bbox[1]), CoordDen),
       Round(base[2] * (Y0 - CoordDen * bbox[2]), CoordDen),
       Round(base[1] * (X1 - X0), CoordDen),
       Round(base[2] * (Y1 - Y0), CoordDen) >>

\* Image.crop: pixels of the box outside the canvas are blank
Crop(canvas, box) ==
    [mode |-> canvas.mode, w |-> box[3], h |-> box[4],
     px |-> [p \in (0..(box[3] - 1)) \X (0..(box[4] - 1)) |->
               LET q == << box[1] + p[1], box[2] + p[2] >>
               IN  IF q \in DOMAIN canvas.px THEN canvas.px[q] ELSE Blank]]

----------------------------------------------------------------------------
(* State *)

VARIABLES
    arg,        \* the arguments of the call (never change)
    geo,        \* deg2num of the two bbox corners, before sorting (numerators)
    tsize,      \* pixel size of the tiles the source serves
    srv,        \* the response of the tile source for each index of the range
    env,        \* what the CRS, reprojection and COG libraries do in this run
    file,       \* the content of the file at the output path
    file0,      \* its content when the current call started
    calls,      \* number of the current call
    pc,         \* position of the calling thread
    stages,     \* the pipeline stages entered by the current call, in order
    wkt,        \* WKT_3857
    corners,    \* draw_tile: corners
    futures,    \* draw_tile: futures, one record per submitted get_tile task
    k,          \* draw_tile: number of results consumed by the paste loop
    bigim,      \* draw_tile: the canvas
    base_size,  \* draw_tile: base_size
    img,        \* draw_tile: the cropped image
    exc,        \* the exception that is propagating or was raised ("" if none)
    ret,        \* what the call returned: "none", "image" or "nothing yet"
    faults,     \* GET attempts that raised so far in this call
    zoom,       \* the local zoom after lines 273-274: << >> or << level >>
    raisedAt,   \* the position at which the exception in exc was raised
    gt          \* the geotransform written to the raster by this call

\* UrbanDataSet.loopUnitChat
VARIABLES
    chat,              \* the arguments of the call and self.mapillary_key
    units,             \* self.units: what each unit's images turn out to be
    unit,              \* the unit of the current iteration (i + 1), 0 before
    dic,               \* dic
    top_view_imgs,     \* top_view_imgs['top_view_base64']
    street_view_imgs,  \* street_view_imgs['street_view_base64']
    chatpc,            \* position in loopUnitChat
    chatexc            \* the exception loopUnitChat raised ("" if none)

chatvars == << chat, units, unit, dic, top_view_imgs, street_view_imgs,
               chatpc, chatexc >>

inputs == << arg, geo, tsize, srv, env >>
draw == << corners, futures, k, bigim, base_size, img >>
tilevars == << arg, geo, tsize, srv, env, file, file0, calls, pc, stages, wkt,
               corners, futures, k, bigim, base_size, img, exc, ret, faults,
               zoom, raisedAt, gt >>
vars == << tilevars, chatvars >>

\* sorted([x0, x1]), sorted([y0, y1])
X0 == Min(geo[1], geo[3])
X1 == Max(geo[1], geo[3])
Y0 == Min(geo[2], geo[4])
Y1 == Max(geo[2], geo[4])

Running == {i \in 1..Len(futures) : futures[i].st = "running"}
Queued == {i \in 1..Len(futures) : futures[i].st = "queued"}
AllDone == \A i \in 1..Len(futures) : futures[i].st = "done"

Enter(stage) == stages' = Append(stages, stage)

\* an exception leaves tms_to_geotiff
Fail(e) ==
    /\ pc' = "Failed"
    /\ exc' = e
    /\ raisedAt' = IF exc = "" THEN pc ELSE raisedAt
    /\ ret' = "raised"
    /\ Enter("Failed")

----------------------------------------------------------------------------
(* Validation: lines 221-274 *)

\* variant: the overwrite flag read the wrong way round
OutputExistsSkip_inverted == arg.overwrite /\ file # "absent"

\* not overwrite and os.path.exists(output)
OutputExistsSkip == ~arg.overwrite /\ file # "absent"

\* variant: the arguments are checked before the output path is looked at
ExistsCheck_validatesfirst ==
    /\ pc = "exists_check"
    /\ IF arg.source = "nonstr" \/ arg.bbox # "list4" \/ arg.zoom = arg.resolution
       THEN Fail("ValueError")
       ELSE IF OutputExistsSkip
       THEN /\ pc' = "Skip"
            /\ ret' = "none"
            /\ Enter("OutputExistsSkip")
            /\ UNCHANGED << exc, raisedAt >>
       ELSE /\ pc' = "resolve_source"
            /\ UNCHANGED << exc, raisedAt, ret, stages >>
    /\ UNCHANGED << inputs, draw, file, file0, calls, wkt, faults >>
    /\ UNCHANGED << zoom, gt >>
    /\ UNCHANGED chatvars

ExistsCheck ==
    /\ pc = "exists_check"
    /\ IF OutputExistsSkip
       THEN /\ pc' = "Skip"
            /\ ret' = "none"
            /\ Enter("OutputExistsSkip")
       ELSE /\ pc' = "resolve_source"
            /\ UNCHANGED << ret, stages >>
    /\ UNCHANGED << inputs, draw, file, file0, calls, wkt, exc, raisedAt, faults >>
    /\ UNCHANGED << zoom, gt >>
    /\ UNCHANGED chatvars

\* the source is rejected by the isinstance test and its else branch
SourceRejected == arg.source = "nonstr"

ResolveSource ==
    /\ pc = "resolve_source"
    /\ IF SourceRejected
       THEN Fail("ValueError")
       ELSE /\ pc' = "check_bbox"
            /\ UNCHANGED << exc, raisedAt, ret, stages >>
    /\ UNCHANGED << inputs, draw, file, file0, calls, wkt, faults >>
    /\ UNCHANGED << zoom, gt >>
    /\ UNCHANGED chatvars

\* variant: the length of the list is not tested
BBoxAccepted_anylength == arg.bbox \in {"list4", "list3"}

\* isinstance(bbox, list) and len(bbox) == 4
BBoxAccepted == arg.bbox = "list4"

CheckBBox ==
    /\ pc = "check_bbox"
    /\ IF BBoxAccepted
       THEN /\ pc' = "check_zoom"
            /\ UNCHANGED << exc, raisedAt, ret, stages >>
       ELSE Fail("ValueError")
    /\ UNCHANGED << inputs, draw, file, file0, calls, wkt, faults >>
    /\ UNCHANGED << zoom, gt >>
    /\ UNCHANGED chatvars

\* variant: only the test for both missing
ZoomRejected_missingonly == ~arg.zoom /\ ~arg.resolution

\* zoom and resolution both None, or both given
ZoomRejected ==
    \/ ~arg.zoom /\ ~arg.resolution
    \/ arg.zoom /\ arg.resolution

\* variant: the test of zoom and resolution made only after the tiles were
\* fetched and pasted
CheckZoom_late ==
    /\ \/ /\ pc = "check_zoom"
          /\ pc' = "to_zoom"
          /\ UNCHANGED << exc, raisedAt, ret, stages >>
       \/ /\ pc = "Cropping"
          /\ ZoomRejected
          /\ Fail("ValueError")
    /\ UNCHANGED << inputs, draw, file, file0, calls, wkt, faults >>
    /\ UNCHANGED << zoom, gt >>
    /\ UNCHANGED chatvars

CheckZoom ==
    /\ pc = "check_zoom"
    /\ IF ZoomRejected
       THEN Fail("ValueError")
       ELSE /\ pc' = "to_zoom"
            /\ UNCHANGED << exc, raisedAt, ret, stages >>
    /\ UNCHANGED << inputs, draw, file, file0, calls, wkt, faults >>
    /\ UNCHANGED << zoom, gt >>
    /\ UNCHANGED chatvars

\* the largest z >= 0 with 2^z * b <= a, for a >= b > 0: floor(log2(a / b))
RECURSIVE FloorLog2(_, _)
FloorLog2(a, b) == IF a < 2 * b THEN 0 ELSE 1 + FloorLog2(a, 2 * b)

\* variant: math.floor in place of int
resolution_to_zoom_level_floor(r) ==
    IF r[2] >= r[1]
    THEN FloorLog2(r[2], r[1])
    ELSE IF r[1] = r[2] * (2 ^ FloorLog2(r[1], r[2]))
         THEN 0 - FloorLog2(r[1], r[2])
         ELSE 0 - FloorLog2(r[1], r[2]) - 1

\* int(math.log2(initial_resolution / resolution)) for the resolution
\* r[1] / r[2] * initial_resolution > 0: the quotient is r[2] / r[1], and int
\* drops the fraction of the logarithm, of a negative one as of a positive one
resolution_to_zoom_level(r) ==
    IF r[2] >= r[1]
    THEN FloorLog2(r[2], r[1])
    ELSE 0 - FloorLog2(r[1], r[2])

\* what resolution_to_zoom_level raises: the division of line 257 by a zero
\* resolution, math.log2 of a negative quotient
ResolutionRaises(r) ==
    IF r[1] = 0 THEN "ZeroDivisionError"
    ELSE IF r[1] < 0 THEN "ValueError"
    ELSE ""

\* if resolution is not None: zoom = resolution_to_zoom_level(resolution)
ResolutionToZoom ==
    /\ pc = "to_zoom"
    /\ IF arg.resolution
       THEN IF ResolutionRaises(arg.res) # ""
            THEN /\ Fail(ResolutionRaises(arg.res))
                 /\ UNCHANGED zoom
            ELSE /\ zoom' = << resolution_to_zoom_level(arg.res) >>
                 /\ pc' = "crs_init"
                 /\ UNCHANGED << exc, raisedAt, ret, stages >>
       ELSE /\ zoom' = << arg.z >>
            /\ pc' = "crs_init"
            /\ UNCHANGED << exc, raisedAt, ret, stages >>
    /\ UNCHANGED << inputs, draw, file, file0, calls, wkt, faults, gt >>
    /\ UNCHANGED chatvars

----------------------------------------------------------------------------
(* web_mercator.ImportFromEPSG(3857): lines 280-295 *)

CrsInit ==
    /\ pc = "crs_init"
    /\ CASE env.proj = "ok" ->
              \* the import succeeds
              /\ wkt' = "EPSG:3857"
              /\ pc' = "Indexing"
              /\ Enter("Indexing")
              /\ UNCHANGED << exc, raisedAt, ret >>
         [] env.proj = "path_ok" ->
              \* RuntimeError naming PROJ and a path; the second import succeeds
              /\ wkt' = "EPSG:3857"
              /\ pc' = "Indexing"
              /\ Enter("Indexing")
              /\ UNCHANGED << exc, raisedAt, ret >>
         [] env.proj = "path_fail" ->
              \* the second import raises, outside any handler
              /\ Fail("RuntimeError")
              /\ UNCHANGED wkt
         [] OTHER ->
              \* "nopath", "other": the RuntimeError is swallowed and the
              \* reference stays empty
              /\ wkt' = ""
              /\ pc' = "Indexing"
              /\ Enter("Indexing")
              /\ UNCHANGED << exc, raisedAt, ret >>
    /\ UNCHANGED << inputs, draw, file, file0, calls, faults >>
    /\ UNCHANGED << zoom, gt >>
    /\ UNCHANGED chatvars

----------------------------------------------------------------------------
(* draw_tile, calling thread: lines 384-413 *)

\* executor.submit(get_tile, source.format(z=zoom, x=x, y=y))
NewFuture(z, xy) ==
    [st |-> "queued", retry |-> Retries, tries |-> 0, res |-> Pending,
     url |-> << z, xy[1], xy[2] >>]

\* variant: the raster file created before the tiles are fetched
Index_createsfile ==
    /\ pc = "Indexing"
    /\ corners' = Corners(X0, Y0, X1, Y1)
    /\ futures' = << >>
    /\ file' = "partial"
    /\ pc' = "Fetching"
    /\ Enter("Fetching")
    /\ UNCHANGED << inputs, file0, calls, wkt, k, bigim, base_size, img,
                    exc, raisedAt, ret, faults >>
    /\ UNCHANGED << zoom, gt >>
    /\ UNCHANGED chatvars

\* lines 384-395
Index ==
    /\ pc = "Indexing"
    /\ corners' = Corners(X0, Y0, X1, Y1)
    /\ futures' = << >>
    /\ pc' = "Fetching"
    /\ Enter("Fetching")
    /\ UNCHANGED << inputs, file, file0, calls, wkt, k, bigim, base_size, img,
                    exc, raisedAt, ret, faults >>
    /\ UNCHANGED << zoom, gt >>
    /\ UNCHANGED chatvars

\* executor.submit(get_tile, ...) for the next index in corners
Submit ==
    /\ pc = "Fetching"
    /\ Len(futures) < Len(corners)
    /\ futures' = Append(futures, NewFuture(zoom[1], corners[Len(futures) + 1]))
    /\ UNCHANGED << inputs, file, file0, calls, pc, stages, wkt, corners, k,
                    bigim, base_size, img, exc, raisedAt, ret, faults >>
    /\ UNCHANGED << zoom, gt >>
    /\ UNCHANGED chatvars

\* lines 401-403: every index is submitted, the paste loop starts
BeginPaste ==
    /\ pc = "Fetching"
    /\ Len(futures) = Len(corners)
    /\ bigim' = NoImage
    /\ base_size' = << DefaultTileSize, DefaultTileSize >>
    /\ k' = 0
    /\ pc' = "Compositing"
    /\ Enter("Compositing")
    /\ UNCHANGED << inputs, file, file0, calls, wkt, corners, futures, img,
                    exc, raisedAt, ret, faults >>
    /\ UNCHANGED << zoom, gt >>
    /\ UNCHANGED chatvars

\* the future whose result the paste loop takes next: zip(futures, corners)
NextFuture == k + 1

\* variant: the result is taken without waiting for the task
ResultReady_nowait(i) == TRUE

\* fut.result() may return: the future is done
ResultReady(i) == futures[i].st = "done"

\* variant: an exception of the task is swallowed
ResultRaises_swallowed(res) == FALSE

\* fut.result() raises what the task raised
ResultRaises(res) == res.t = "exc"

\* one round of the loop of lines 404-405, or its end
Collect ==
    /\ pc = "Compositing"
    /\ IF k = Len(futures)
       THEN /\ pc' = "Shutdown"
            /\ UNCHANGED << k, bigim, base_size, exc, raisedAt >>
       ELSE /\ ResultReady(NextFuture)
            /\ LET res == futures[NextFuture].res
               IN  IF ResultRaises(res)
                   THEN \* fut.result() raises what get_tile raised
                        /\ exc' = res.body
                        /\ raisedAt' = pc
                        /\ pc' = "Shutdown"
                        /\ UNCHANGED << k, bigim, base_size >>
                   ELSE IF res.t = "bytes" /\ ~Decodable(res.body)
                   THEN \* Image.open raises
                        /\ exc' = "decode"
                        /\ raisedAt' = pc
                        /\ pc' = "Shutdown"
                        /\ UNCHANGED << k, bigim, base_size >>
                   ELSE LET r == paste_tile(bigim, base_size, res, tsize,
                                            corners[NextFuture],
                                            TileBBox(X0, Y0, X1, Y1))
                        IN  /\ bigim' = r.im
                            /\ base_size' = r.base
                            /\ k' = k + 1
                            /\ UNCHANGED << pc, exc, raisedAt >>
    /\ UNCHANGED << inputs, file, file0, calls, stages, wkt, corners, futures,
                    img, ret, faults >>
    /\ UNCHANGED << zoom, gt >>
    /\ UNCHANGED chatvars

\* variant: the executor left without waiting when an exception is pending
ExecutorExit_nowait ==
    /\ pc = "Shutdown"
    /\ IF exc # ""
       THEN Fail("Exception")
       ELSE /\ AllDone
            /\ pc' = "Cropping"
            /\ Enter("Cropping")
            /\ UNCHANGED << exc, raisedAt, ret >>
    /\ UNCHANGED << inputs, draw, file, file0, calls, wkt, faults >>
    /\ UNCHANGED << zoom, gt >>
    /\ UNCHANGED chatvars

\* the end of the with block: executor.shutdown(wait=True) returns when every
\* submitted task has run; then the pending exception, if any, is re-raised
\* by the handler of line 460
ExecutorExit ==
    /\ pc = "Shutdown"
    /\ AllDone
    /\ IF exc # ""
       THEN Fail("Exception")
       ELSE /\ pc' = "Cropping"
            /\ Enter("Cropping")
            /\ UNCHANGED << exc, raisedAt, ret >>
    /\ UNCHANGED << inputs, draw, file, file0, calls, wkt, faults >>
    /\ UNCHANGED << zoom, gt >>
    /\ UNCHANGED chatvars

----------------------------------------------------------------------------
(* get_tile on the worker threads: lines 364-379 *)

\* variant: a thread per task
WorkerFree_unbounded == TRUE

\* a worker thread of ThreadPoolExecutor(5) is free
WorkerFree == Cardinality(Running) < PoolSize

\* the work queue is first in, first out
WorkerStart(i) ==
    /\ futures[i].st = "queued"
    /\ \A j \in Queued : i <= j
    /\ WorkerFree
    /\ futures' = [futures EXCEPT ![i].st = "running"]
    /\ UNCHANGED << inputs, file, file0, calls, pc, stages, wkt, corners, k,
                    bigim, base_size, img, exc, raisedAt, ret, faults >>
    /\ UNCHANGED << zoom, gt >>
    /\ UNCHANGED chatvars

\* variant: gives up one attempt early
AfterRaise_early(f) ==
    IF f.retry - 1 <= 1
    THEN [f EXCEPT !.retry = @ - 1, !.tries = @ + 1, !.st = "done",
                   !.res = Raised("transient")]
    ELSE [f EXCEPT !.retry = @ - 1, !.tries = @ + 1]

\* lines 370-373: retry -= 1; if not retry: raise
AfterRaise(f) ==
    IF f.retry - 1 = 0
    THEN [f EXCEPT !.retry = 0, !.tries = @ + 1, !.st = "done",
                   !.res = Raised("transient")]
    ELSE [f EXCEPT !.retry = @ - 1, !.tries = @ + 1]

\* variant: the loop of get_tile without the countdown of retry
GetRaises_forever(i) ==
    /\ futures[i].st = "running"
    /\ env.net = "flaky"
    /\ faults < MaxFaults
    /\ faults' = faults + 1
    /\ futures' = [futures EXCEPT ![i].tries = @ + 1]
    /\ UNCHANGED << inputs, file, file0, calls, pc, stages, wkt, corners, k,
                    bigim, base_size, img, exc, raisedAt, ret >>
    /\ UNCHANGED << zoom, gt >>
    /\ UNCHANGED chatvars

\* SESSION.get raises (connection error, timeout)
GetRaises(i) ==
    /\ futures[i].st = "running"
    /\ env.net = "flaky"
    /\ faults < MaxFaults
    /\ faults' = faults + 1
    /\ futures' = [futures EXCEPT ![i] = AfterRaise(@)]
    /\ UNCHANGED << inputs, file, file0, calls, pc, stages, wkt, corners, k,
                    bigim, base_size, img, exc, raisedAt, ret >>
    /\ UNCHANGED << zoom, gt >>
    /\ UNCHANGED chatvars

\* SESSION.get returns the response of the source: lines 374-379
GetResponds(i) ==
    /\ futures[i].st = "running"
    /\ futures' = [futures EXCEPT ![i].tries = @ + 1, ![i].st = "done",
                                  ![i].res = GetTileResult(srv[i], i)]
    /\ UNCHANGED << inputs, file, file0, calls, pc, stages, wkt, corners, k,
                    bigim, base_size, img, exc, raisedAt, ret, faults >>
    /\ UNCHANGED << zoom, gt >>
    /\ UNCHANGED chatvars

----------------------------------------------------------------------------
(* finish_picture, the raster file and the post-processing *)

\* retim.getextrema()[3] == (255, 255): a pixel is opaque when it was pasted
\* from an RGB tile
AllOpaque(im) ==
    /\ DOMAIN im.px # {}
    /\ \A p \in DOMAIN im.px : im.px[p] # Blank /\ srv[im.px[p]].body \in RgbBodies

finish_picture(canvas, base, bbox) ==
    LET retim == Crop(canvas, CropBox(base, bbox, X0, Y0, X1, Y1))
    IN  IF retim.mode = "RGBA" /\ AllOpaque(retim)
        THEN [retim EXCEPT !.mode = "RGB"]
        ELSE retim

\* line 413; None has no crop
FinishPicture ==
    /\ pc = "Cropping"
    /\ IF bigim.mode = "none"
       THEN /\ Fail("Exception")
            /\ UNCHANGED img
       ELSE /\ img' = finish_picture(bigim, base_size, TileBBox(X0, Y0, X1, Y1))
            /\ pc' = "Georeferencing"
            /\ Enter("Georeferencing")
            /\ UNCHANGED << exc, raisedAt, ret >>
    /\ UNCHANGED << inputs, file, file0, calls, wkt, corners, futures, k,
                    bigim, base_size, faults >>
    /\ UNCHANGED << zoom, gt >>
    /\ UNCHANGED chatvars

\* lines 414-448; driver.Create refuses a raster without pixels
\* half the width of the world in the unit of the tile coordinates: the
\* grid of zoom WorldZoom has 2^WorldZoom tiles of CoordDen units each
HalfWorld == CoordDen * (2 ^ (WorldZoom - 1))

\* from4326_to3857 of the corner that deg2num puts at the fractional tile
\* coordinates << x, y >>: both projections are linear in the longitude and
\* in asinh(tan(latitude)), so the Web Mercator abscissa is x - HalfWorld and
\* the ordinate HalfWorld - y in the unit in which a tile is CoordDen wide
from4326_to3857(x, y) == << x - HalfWorld, HalfWorld - y >>

Abs(n) == IF n < 0 THEN 0 - n ELSE n

\* variant: the origin taken from the first corner
GeoTransform_firstcorner(xp0, yp0, xp1, yp1, w, h) ==
    << xp0, << Abs(xp1 - xp0), w >>, 0,
       yp0, 0, << 0 - Abs(yp1 - yp0), h >> >>

\* the tuple passed to SetGeoTransform; a quotient n / d is the pair << n, d >>
GeoTransform(xp0, yp0, xp1, yp1, w, h) ==
    << Min(xp0, xp1), << Abs(xp1 - xp0), w >>, 0,
       Max(yp0, yp1), 0, << 0 - Abs(yp1 - yp0), h >> >>

Georeference ==
    /\ pc = "Georeferencing"
    /\ IF img.w < 1 \/ img.h < 1
       THEN /\ Fail("Exception")
            /\ UNCHANGED << file, gt >>
       ELSE /\ file' = "base"
            /\ gt' = LET p0 == from4326_to3857(geo[1], geo[2])
                         p1 == from4326_to3857(geo[3], geo[4])
                     IN GeoTransform(p0[1], p0[2], p1[1], p1[2], img.w, img.h)
            /\ pc' = "Return"
            /\ UNCHANGED << exc, raisedAt, ret, stages >>
    /\ UNCHANGED << inputs, draw, file0, calls, wkt, faults >>
    /\ UNCHANGED zoom
    /\ UNCHANGED chatvars

\* the post-processing the call goes on to after draw_tile: lines 454-459
AfterDraw ==
    IF arg.return_image THEN "return"
    ELSE IF Upper(arg.crs) # "EPSG:3857" THEN "Reprojecting"
    ELSE IF arg.to_cog THEN "ConvertingToCOG"
    ELSE "Done"

Return ==
    /\ pc = "Return"
    /\ IF AfterDraw = "return"
       THEN /\ pc' = "Done"
            /\ ret' = "image"
            /\ Enter("Done")
       ELSE /\ pc' = AfterDraw
            /\ ret' = IF AfterDraw = "Done" THEN "none" ELSE ret
            /\ Enter(AfterDraw)
    /\ UNCHANGED << inputs, draw, file, file0, calls, wkt, exc, raisedAt, faults >>
    /\ UNCHANGED << zoom, gt >>
    /\ UNCHANGED chatvars

\* variant: the output opened for writing before the transform is computed
AfterReprojectError_openfirst(e) ==
    IF e = "import" THEN file ELSE "partial"

\* what is at the output path when reproject has raised: "import" (rasterio
\* missing) and "crs" (calculate_default_transform rejects a CRS) come before
\* the output is opened, "write" is an error after rio.open(output, "w")
\* replaced the file
AfterReprojectError(e) ==
    IF e = "write" THEN "partial" ELSE file

\* reproject(output, output, crs, to_cog=to_cog): lines 531-585
Reproject ==
    /\ pc = "Reprojecting"
    /\ CASE env.reproj = "ok" ->
              /\ file' = "warped"
              /\ IF arg.to_cog
                 THEN /\ pc' = "ConvertingToCOG"
                      /\ Enter("ConvertingToCOG")
                      /\ UNCHANGED << exc, raisedAt, ret >>
                 ELSE /\ pc' = "Done"
                      /\ ret' = "none"
                      /\ Enter("Done")
                      /\ UNCHANGED << exc, raisedAt >>
         [] OTHER ->
              /\ file' = AfterReprojectError(env.reproj)
              /\ Fail("Exception")
    /\ UNCHANGED << inputs, draw, file0, calls, wkt, faults >>
    /\ UNCHANGED << zoom, gt >>
    /\ UNCHANGED chatvars

\* image_to_cog(output, output): lines 588-624
ImageToCog ==
    /\ pc = "ConvertingToCOG"
    /\ CASE env.cog = "ok" ->
              /\ file' = "cog"
              /\ pc' = "Done"
              /\ ret' = "none"
              /\ Enter("Done")
              /\ UNCHANGED << exc, raisedAt >>
         [] env.cog = "translate" ->
              \* cog_translate fails while it writes the destination
              /\ file' = "partial"
              /\ Fail("Exception")
         [] OTHER ->
              \* "missing": rio-cogeo is not installed
              /\ UNCHANGED file
              /\ Fail("Exception")
    /\ UNCHANGED << inputs, draw, file0, calls, wkt, faults >>
    /\ UNCHANGED << zoom, gt >>
    /\ UNCHANGED chatvars

\* the caller calls tms_to_geotiff again with the same arguments
Reinvoke ==
    /\ pc \in {"Skip", "Done"}
    /\ ~arg.overwrite
    /\ calls < MaxCalls
    /\ calls' = calls + 1
    /\ file0' = file
    /\ pc' = "exists_check"
    /\ stages' = << "Validating" >>
    /\ wkt' = "unset"
    /\ corners' = << >>
    /\ futures' = << >>
    /\ k' = 0
    /\ bigim' = NoImage
    /\ base_size' = << DefaultTileSize, DefaultTileSize >>
    /\ img' = NoImage
    /\ exc' = ""
    /\ raisedAt' = ""
    /\ ret' = "nothing yet"
    /\ faults' = 0
    /\ zoom' = << >>
    /\ gt' = << >>
    /\ UNCHANGED << inputs, file >>
    /\ UNCHANGED chatvars

----------------------------------------------------------------------------
(* Calls and environments the model explores *)

Resp(s, b) == [status |-> s, body |-> b]
Responses ==
    {Resp(200, b) : b \in Bodies} \cup
    {Resp(s, b) : s \in StatusCodes \ {200}, b \in {"empty", "html"}}
GoodTile == Resp(200, "rgb")

ProjOutcomes == {"ok", "path_ok", "path_fail", "nopath", "other"}
ReprojOutcomes == {"ok", "import", "crs", "write"}
CogOutcomes == {"ok", "missing", "translate"}

\* the zoom level of a call that passes zoom, and the resolution of zoom 0
ZoomArg == WorldZoom
UnitRes == << 1, 1 >>
\* every resolution a call passes: << n, d >> is n / d times the initial
\* resolution 156543.03392804097, so zero and negative ones are among them
Resolutions == (-1..MaxRes) \X (1..MaxRes)

DefaultArg ==
    [overwrite |-> TRUE, source |-> "named", bbox |-> "list4", zoom |-> TRUE,
     resolution |-> FALSE, crs |-> "EPSG:3857", to_cog |-> FALSE,
     return_image |-> FALSE, z |-> ZoomArg, res |-> UnitRes]
\* the network of a steady environment never makes a GET raise
DefaultEnv == [proj |-> "ok", reproj |-> "ok", cog |-> "ok", net |-> "steady"]
\* an environment in which GET attempts may raise
FlakyEnv == [DefaultEnv EXCEPT !.net = "flaky"]

\* number of tiles of a bounding box with the given deg2num results
NumTiles(g) ==
    NumX(Min(g[1], g[3]), Max(g[1], g[3])) * NumY(Min(g[2], g[4]), Max(g[2], g[4]))

\* one whole tile; the south-west corner has the larger y
OneTile == << 0, CoordDen, CoordDen, 0 >>
\* two whole tiles side by side
TwoTiles == << 0, CoordDen, 2 * CoordDen, 0 >>
\* a strip of PoolSize + 1 whole tiles: more tasks than worker threads
Strip == << 0, CoordDen, (PoolSize + 1) * CoordDen, 0 >>
\* 2 x 2 tiles, partly covered, of a bbox given with east and west exchanged
Grid == << 2 * CoordDen, 2 * CoordDen - 1, 1, 0 >>
\* every bounding box inside MaxTilesX x 1 tiles with west <= east and
\* south <= north (y grows to the south)
SmallBoxes ==
    {g \in (0..(MaxTilesX * CoordDen)) \X (0..CoordDen)
           \X (0..(MaxTilesX * CoordDen)) \X (0..CoordDen) :
        g[1] <= g[3] /\ g[2] >= g[4]}

\* the calls with every kind of argument the validation looks at
ValidationCalls ==
    /\ arg \in [overwrite : BOOLEAN, source : SourceKinds, bbox : BBoxKinds,
                zoom : BOOLEAN, resolution : BOOLEAN, crs : {"EPSG:3857"},
                to_cog : {FALSE}, return_image : {FALSE}, z : {ZoomArg},
                res : {UnitRes}]
    /\ env \in [proj : ProjOutcomes, reproj : {"ok"}, cog : {"ok"},
                net : {"steady"}]
    /\ file \in {"absent", "old"}
    /\ geo = OneTile
    /\ tsize = 1
    /\ srv = [i \in 1..1 |-> GoodTile]

\* valid calls with every combination of the post-processing arguments
PostCalls ==
    /\ arg \in [overwrite : BOOLEAN, source : {"http"}, bbox : {"list4"},
                zoom : {TRUE}, resolution : {FALSE}, crs : CrsNames,
                to_cog : BOOLEAN, return_image : BOOLEAN, z : {ZoomArg},
                res : {UnitRes}]
    /\ env \in [proj : {"ok"}, reproj : ReprojOutcomes, cog : CogOutcomes,
                net : {"steady"}]
    /\ file \in {"absent", "old"}
    /\ geo = OneTile
    /\ tsize = 1
    /\ srv = [i \in 1..1 |-> GoodTile]

\* two tiles and every pair of responses of the source
ServerCalls ==
    /\ arg = DefaultArg
    /\ env = FlakyEnv
    /\ file = "absent"
    /\ geo = TwoTiles
    /\ tsize \in TileSizes
    /\ srv \in [1..2 -> Responses]

\* every small bounding box, tiles present or absent
BoxCalls ==
    /\ arg = DefaultArg
    /\ env = DefaultEnv
    /\ file = "absent"
    /\ geo \in SmallBoxes
    /\ tsize \in TileSizes
    /\ srv \in [1..NumTiles(geo) -> {GoodTile, Resp(404, "html")}]

\* a grid of tiles in both directions, tiles present or absent, on a steady
\* and on a flaky network
GridCalls ==
    /\ arg = DefaultArg
    /\ env \in {DefaultEnv, FlakyEnv}
    /\ file = "absent"
    /\ geo = Grid
    /\ tsize \in TileSizes
    /\ srv \in [1..NumTiles(Grid) -> {GoodTile, Resp(404, "html")}]

\* calls that overwrite an existing output, for every response of the source
OverwriteCalls ==
    /\ arg = DefaultArg
    /\ env = FlakyEnv
    /\ file = "old"
    /\ geo = OneTile
    /\ tsize = 1
    /\ srv \in [1..1 -> Responses]

\* calls that pass a resolution and no zoom
ResolutionCalls ==
    /\ arg \in {[DefaultArg EXCEPT !.zoom = FALSE, !.resolution = TRUE,
                                    !.res = r] : r \in Resolutions}
    /\ env = DefaultEnv
    /\ file = "absent"
    /\ geo = OneTile
    /\ tsize = 1
    /\ srv = [i \in 1..1 |-> GoodTile]

\* more tiles than worker threads: one tile absent or refused on a steady
\* network, or every tile present on a flaky one
PoolCalls ==
    /\ arg = DefaultArg
    /\ file = "absent"
    /\ geo = Strip
    /\ tsize = 1
    /\ \/ /\ env = DefaultEnv
          /\ \E bad \in {Resp(404, "html"), Resp(500, "html")} :
             \E j \in 1..NumTiles(Strip) :
                srv = [i \in 1..NumTiles(Strip) |-> IF i = j THEN bad ELSE GoodTile]
       \/ /\ env = FlakyEnv
          /\ srv = [i \in 1..NumTiles(Strip) |-> GoodTile]

\* tms_to_geotiff called on its own, not from loopUnitChat
NoChat ==
    /\ chat = << >>
    /\ units = << >>
    /\ unit = 0
    /\ dic = << >>
    /\ top_view_imgs = << >>
    /\ street_view_imgs = << >>
    /\ chatpc = "none"
    /\ chatexc = ""

Init ==
    /\ \/ ValidationCalls
       \/ PostCalls
       \/ ServerCalls
       \/ BoxCalls
       \/ GridCalls
       \/ ResolutionCalls
       \/ OverwriteCalls
       \/ PoolCalls
    /\ file0 = file
    /\ calls = 1
    /\ pc = "exists_check"
    /\ stages = << "Validating" >>
    /\ wkt = "unset"
    /\ corners = << >>
    /\ futures = << >>
    /\ k = 0
    /\ bigim = NoImage
    /\ base_size = << DefaultTileSize, DefaultTileSize >>
    /\ img = NoImage
    /\ exc = ""
    /\ raisedAt = ""
    /\ ret = "nothing yet"
    /\ faults = 0
    /\ zoom = << >>
    /\ gt = << >>
    /\ NoChat

Next ==
    \/ ExistsCheck
    \/ ResolveSource
    \/ CheckBBox
    \/ CheckZoom
    \/ ResolutionToZoom
    \/ CrsInit
    \/ Index
    \/ Submit
    \/ BeginPaste
    \/ Collect
    \/ ExecutorExit
    \/ \E i \in 1..Len(futures) : WorkerStart(i)
    \/ \E i \in 1..Len(futures) : GetRaises(i)
    \/ \E i \in 1..Len(futures) : GetResponds(i)
    \/ FinishPicture
    \/ Georeference
    \/ Return
    \/ Reproject
    \/ ImageToCog
    \/ Reinvoke

Spec == Init /\ [][Next]_vars

\* the steps of the calling thread within one call
MainStep ==
    \/ ExistsCheck
    \/ ResolveSource
    \/ CheckBBox
    \/ CheckZoom
    \/ ResolutionToZoom
    \/ CrsInit
    \/ Index
    \/ Submit
    \/ BeginPaste
    \/ Collect
    \/ ExecutorExit
    \/ FinishPicture
    \/ Georeference
    \/ Return
    \/ Reproject
    \/ ImageToCog
\* a free worker thread takes the next task of the queue
PoolStep == \E i \in 1..Len(futures) : WorkerStart(i)
\* a GET attempt of a running task returns or raises
HttpStep == \E i \in 1..Len(futures) : GetRaises(i) \/ GetResponds(i)

\* the calls whose runs are followed to their end: every kind of argument,
\* environment and response, on one, two and PoolSize + 1 tiles
FairInit ==
    /\ Init
    /\ \/ ValidationCalls
       \/ PostCalls
       \/ ServerCalls
       \/ ResolutionCalls
       \/ OverwriteCalls
       \/ PoolCalls

\* the calling thread and the worker threads keep running, and every HTTP
\* attempt ends (timeout=60); whether the caller calls again is up to it
FairSpec ==
    /\ FairInit
    /\ [][Next]_vars
    /\ WF_vars(MainStep)
    /\ WF_vars(PoolStep)
    /\ WF_vars(HttpStep)

----------------------------------------------------------------------------
(* Properties *)

Terminal == pc \in {"Done", "Failed", "Skip"}
\* the positions after the paste loop and the executor
AfterExecutor ==
    pc \in {"Cropping", "Georeferencing", "Return", "Reprojecting",
            "ConvertingToCOG", "Done"}
StagesSeen == {stages[n] : n \in 1..Len(stages)}

\* C1: a call with overwrite false on an existing output never leaves the
\* existence check except into the skip: it raises nothing, submits no tile
\* fetch, enters no pipeline stage and the file keeps the content it had when
\* the call started; this holds for the second call as for the first.
C1_SkipLeavesFile ==
    (~arg.overwrite /\ file0 # "absent") =>
        /\ pc \in {"exists_check", "Skip"}
        /\ file = file0
        /\ futures = << >>
        /\ exc = ""
        /\ ret \in {"nothing yet", "none"}
        /\ StagesSeen \subseteq {"Validating", "OutputExistsSkip"}

\* C1 witness: the second of two calls with overwrite false has been skipped
C1_Witness ==
    /\ calls = 2
    /\ ~arg.overwrite
    /\ pc = "Skip"
    /\ file = file0

\* C2: a source string that is no named provider and no http URL ends the
\* call with the input error (ValueError) at the source check.
C2_UnrecognizedSourceFatal ==
    (arg.source = "otherstr" /\ pc \notin {"exists_check", "resolve_source", "Skip"})
        => (pc = "Failed" /\ exc = "ValueError" /\ futures = << >>)


\* the reference, the reprojection and the COG conversion do not fail
PostProcessingOk == env.proj = "ok" /\ env.reproj = "ok" /\ env.cog = "ok"

\* what the source answers for tile i
AbsentResp(i) == srv[i].status = 404 \/ srv[i].body = "empty"
DecodableResp(i) == srv[i].status = 200 /\ srv[i].body \in ImageBodies
ErrorResp(i) == srv[i].status \notin {200, 404}
\* task i gave up after its GET attempts raised
Exhausted(i) == futures[i].st = "done" /\ futures[i].res = Raised("transient")
\* task i got the response of the source
Answered(i) == futures[i].st = "done" /\ ~Exhausted(i)

\* the canvas pixels of the grid cell of tile i
RegionOf(i) ==
    {p \in DOMAIN bigim.px :
        /\ p[1] \div tsize = corners[i][1] - Floor(X0)
        /\ p[2] \div tsize = corners[i][2] - Floor(Y0)}

\* the cropped image would have no pixels (a bounding box thinner than a pixel)
EmptyCrop ==
    LET box == CropBox(<< tsize, tsize >>, TileBBox(X0, Y0, X1, Y1), X0, Y0, X1, Y1)
    IN  box[3] < 1 \/ box[4] < 1

\* C3: when every tile is answered by a 404 / empty body or by a decodable
\* tile, with at least one of each, the absent tiles raise nothing: the canvas
\* cells of the absent tiles are blank at all times, the call gets past the
\* executor, and it writes the raster and ends in Done; the only failure left
\* is the raster without pixels of a bounding box thinner than one pixel.
C3_AbsentTilesTolerated ==
    ( /\ Len(corners) > 0
      /\ \A i \in 1..Len(corners) : AbsentResp(i) \/ DecodableResp(i)
      /\ \E i \in 1..Len(corners) : AbsentResp(i)
      /\ \E i \in 1..Len(corners) : DecodableResp(i) /\ ~AbsentResp(i)
      /\ \A i \in 1..Len(futures) : ~Exhausted(i)
      /\ PostProcessingOk )
    =>
      /\ exc \in {"", "Exception"}
      /\ \A i \in 1..Len(corners) :
            AbsentResp(i) => \A p \in RegionOf(i) : bigim.px[p] = Blank
      /\ (pc = "Failed") => (EmptyCrop /\ stages[Len(stages) - 1] = "Georeferencing")
      /\ (pc \in {"Return", "Done"}) => file = "base"
      /\ Terminal => (pc = "Done" \/ EmptyCrop)

\* C3 witness: a finished call with an absent tile, whose cell is blank, next
\* to a pasted one
C3_Witness ==
    /\ pc = "Done"
    /\ file = "base"
    /\ \E i, j \in 1..Len(corners) :
          /\ AbsentResp(i)
          /\ RegionOf(i) # {}
          /\ \A p \in RegionOf(i) : bigim.px[p] = Blank
          /\ DecodableResp(j)
          /\ \E p \in RegionOf(j) : bigim.px[p] = j

\* a tile that paste_tile puts on the canvas
Pasteable(i) ==
    /\ DecodableResp(i)
    /\ srv[i].body \in RgbBodies \/ ~is_empty(srv[i].body)

\* every cell of the canvas shows its own tile
CompleteMosaic ==
    /\ bigim.mode # "none"
    /\ \A i \in 1..Len(corners) :
          /\ Cardinality(RegionOf(i)) = tsize * tsize
          /\ \A p \in RegionOf(i) : bigim.px[p] = i

\* C4: no task issues more than 3 GETs; a task gives up only when its 3rd GET
\* raised; a task whose GET number k <= 3 returned has the result the response
\* alone determines; and when no task gave up and every tile is pasteable, the
\* paste loop ends with the complete mosaic and no exception, however many
\* attempts raised before.
C4_TransparentRetry ==
    /\ \A i \in 1..Len(futures) :
          /\ futures[i].tries <= 3
          /\ Exhausted(i) => futures[i].tries = 3
          /\ Answered(i) => futures[i].res = GetTileResult(srv[i], i)
    /\ ( /\ pc \in {"Shutdown", "Cropping", "Georeferencing", "Return", "Done"}
         /\ \A i \in 1..Len(futures) : Pasteable(i) /\ ~Exhausted(i) )
       => (exc = "" /\ (Len(corners) > 0 => CompleteMosaic))
    /\ ( /\ pc = "Failed"
         /\ Len(corners) > 0
         /\ PostProcessingOk
         /\ \A i \in 1..Len(futures) : Pasteable(i) /\ ~Exhausted(i) )
       => EmptyCrop

\* C4 witness: a call ended in Done with the complete mosaic although the
\* first two GETs of one tile raised
C4_Witness ==
    /\ pc = "Done"
    /\ CompleteMosaic
    /\ \E i \in 1..Len(futures) : futures[i].tries = 3 /\ Answered(i)

\* C5: once the task of some tile has ended in an exception (3 GETs raised,
\* or an HTTP error status was raised), the call never gets past the executor:
\* nothing is cropped, written or returned, and the call ends in Failed with
\* the exception raised to the caller.
C5_TileFailureAborts ==
    (\E i \in 1..Len(futures) : futures[i].st = "done" /\ futures[i].res.t = "exc")
    =>
      /\ pc \in {"Fetching", "Compositing", "Shutdown", "Failed"}
      /\ ret \in {"nothing yet", "raised"}
      /\ img = NoImage
      /\ file = file0
      /\ Terminal => (pc = "Failed" /\ exc = "Exception" /\ ret = "raised")

\* C5 witness: the call has failed on one tile after another tile was fetched
\* and pasted
C5_Witness ==
    /\ pc = "Failed"
    /\ ret = "raised"
    /\ k >= 1
    /\ bigim.mode # "none"
    /\ \E i \in 1..Len(futures) : futures[i].res.t = "exc"

\* number of responses task i has received
Received(i) == futures[i].tries - (Retries - futures[i].retry)

\* C6 as stated: every response with an error status other than 404 makes the
\* task raise at once, whatever the body.
C6_ErrorStatusFatal ==
    \A i \in 1..Len(futures) :
        (ErrorResp(i) /\ Answered(i)) =>
            (futures[i].res = Raised("http") /\ Received(i) = 1)

\* C6 amended: a response with an error status other than 404 and a body that
\* is not empty makes the task raise on its first occurrence (one response
\* received, no further GET) and the call fail; with an empty body the tile
\* is absent and nothing is raised.
C6_ErrorStatusFatalUnlessEmpty ==
    \A i \in 1..Len(futures) :
        (ErrorResp(i) /\ Answered(i)) =>
            /\ Received(i) = 1
            /\ IF srv[i].body = "empty"
               THEN futures[i].res = NoneRes
               ELSE /\ futures[i].res = Raised("http")
                    /\ pc \in {"Fetching", "Compositing", "Shutdown", "Failed"}
                    /\ Terminal => pc = "Failed"

\* C6 witness: the call failed on the first response of a tile, a 500 with a
\* body
C6_Witness ==
    /\ pc = "Failed"
    /\ \E i \in 1..Len(futures) :
          /\ srv[i].status = 500
          /\ srv[i].body = "html"
          /\ futures[i].tries = 1
          /\ futures[i].res = Raised("http")


\* the tiles among the first n of the index order that were decoded
DecodedUpTo(n) == {i \in 1..n : DecodableResp(i)}

\* the canvas as a function of the index range, the tile size and the
\* responses of the first n indices alone: created by the first decoded tile,
\* and each pixel of the cell (x - xMin, y - yMin) showing the tile of index
\* (x, y) if that tile is pasted
ExpectedCanvas(n) ==
    IF DecodedUpTo(n) = {} THEN NoImage
    ELSE
      LET first == CHOOSE i \in DecodedUpTo(n) : \A j \in DecodedUpTo(n) : i <= j
          w == tsize * (Ceil(X1) - Floor(X0))
          h == tsize * (Ceil(Y1) - Floor(Y0))
      IN  [mode |-> ImMode(srv[first].body), w |-> w, h |-> h,
           px |-> [p \in (0..(w - 1)) \X (0..(h - 1)) |->
                     LET i == CHOOSE j \in 1..Len(corners) :
                                 corners[j] = << Floor(X0) + (p[1] \div tsize),
                                                 Floor(Y0) + (p[2] \div tsize) >>
                     IN  IF i <= n /\ Pasteable(i) THEN i ELSE Blank]]

\* C7: at every moment the canvas is the one determined by the index range
\* and the responses of the indices consumed so far, in whatever order the
\* fetch tasks complete: the k-th result consumed is that of the k-th index,
\* and its tile lies at (tsize * (x - xMin), tsize * (y - yMin)).
C7_CanvasIndependentOfCompletion ==
    bigim = ExpectedCanvas(k)

\* C7 witness: tiles have been pasted while the tasks completed in another
\* order than they were submitted
C7_Witness ==
    /\ k >= 2
    /\ bigim.mode # "none"
    /\ \E p, q \in DOMAIN bigim.px : bigim.px[p] = 1 /\ bigim.px[q] = 2
    /\ \E i, j \in 1..Len(futures) :
          i < j /\ futures[i].st = "running" /\ futures[j].st = "done"

\* C8 as stated: no tile is pasted while a submitted task is queued or running.
C8_BarrierBeforePaste ==
    [][k' = k + 1 => AllDone]_vars

\* C8 amended: a tile is pasted only when its own fetch task has completed
\* (other tasks may still be queued or running), and cropping begins only
\* after every submitted task has completed.
C8_PasteAfterOwnFetch ==
    /\ [][k' = k + 1 => futures[k + 1].st = "done"]_vars
    /\ [](AfterExecutor => AllDone)

\* C8 witness: a tile is on the canvas while another task is not done
C8_Witness ==
    /\ pc = "Compositing"
    /\ k >= 1
    /\ bigim.mode # "none"
    /\ ~AllDone

\* C9: at most 5 get_tile tasks are running at any moment, also with more
\* than 5 tiles.
C9_AtMostFiveFetches ==
    Cardinality(Running) <= 5

\* C9 witness: 5 tasks are running and a 6th waits in the queue
C9_Witness ==
    /\ Cardinality(Running) = 5
    /\ Queued # {}

\* the stage sequence of the pipeline for the arguments of the call
ExpectedStages ==
    << "Validating", "Indexing", "Fetching", "Compositing", "Cropping",
       "Georeferencing" >>
    \o (IF Upper(arg.crs) # "EPSG:3857" THEN << "Reprojecting" >> ELSE << >>)
    \o (IF arg.to_cog THEN << "ConvertingToCOG" >> ELSE << >>)
    \o << "Done" >>

\* C10: a call that ends in Done has entered exactly the stages Validating,
\* Indexing, Fetching, Compositing, Cropping, Georeferencing, Reprojecting iff
\* the CRS is not EPSG:3857, ConvertingToCOG iff to_cog, Done, in this order,
\* whatever return_image is.
C10_StageOrder ==
    pc = "Done" => stages = ExpectedStages

\* C11: a call that is not skipped and whose bbox is not a list of exactly 4
\* values never gets past the bbox check: it ends with the input error
\* (ValueError), before any tile task exists and with the output untouched.
C11_BadBBoxFatal ==
    (arg.bbox # "list4"
        /\ pc \notin {"exists_check", "resolve_source", "check_bbox", "Skip"})
        => (pc = "Failed" /\ exc = "ValueError" /\ futures = << >> /\ file = file0)

\* C11 witness: the bbox check itself has raised, for a list of 3 values
C11_Witness ==
    /\ pc = "Failed"
    /\ raisedAt = "check_bbox"
    /\ arg.bbox = "list3"

\* C12: in a call that is not skipped, zoom and resolution both given or both
\* missing end the call with the input error (ValueError) at the latest at
\* the zoom/resolution check, before any tile task exists; with exactly one
\* of them given that check never raises.
C12_ZoomXorResolution ==
    /\ (arg.zoom = arg.resolution
          /\ pc \notin {"exists_check", "resolve_source", "check_bbox",
                        "check_zoom", "Skip"})
          => (pc = "Failed" /\ exc = "ValueError" /\ futures = << >>
                /\ raisedAt \in {"resolve_source", "check_bbox", "check_zoom"})
    /\ arg.zoom # arg.resolution => raisedAt # "check_zoom"

\* C12 witness: the zoom/resolution check has raised for a call that passes
\* both, after the source and the bbox were accepted
C12_Witness ==
    /\ pc = "Failed"
    /\ raisedAt = "check_zoom"
    /\ arg.zoom /\ arg.resolution

\* C13: the input errors (ValueError of the source, bbox and zoom/resolution
\* checks, and what the resolution conversion raises) are raised before the
\* first tile fetch: while the call is being validated and when such an
\* error has been raised, no tile task was submitted and no GET attempted.
C13_ValidationBeforeFetch ==
    (\/ pc \in {"resolve_source", "check_bbox", "check_zoom", "to_zoom"}
     \/ exc \in {"ValueError", "ZeroDivisionError"})
        => (corners = << >> /\ futures = << >> /\ faults = 0 /\ k = 0)

\* C13 witness: the last of the checks has raised and nothing was fetched
C13_Witness ==
    /\ pc = "Failed"
    /\ exc = "ValueError"
    /\ raisedAt = "check_zoom"
    /\ ~arg.zoom /\ ~arg.resolution
    /\ futures = << >>

\* z = floor(log2(a / b)) for a, b > 0: 2^z <= a / b < 2^(z + 1)
IsFloorLog2(z, a, b) ==
    IF z >= 0
    THEN (2 ^ z) * b <= a /\ a < (2 ^ (z + 1)) * b
    ELSE b <= (2 ^ (0 - z)) * a /\ (2 ^ (0 - z - 1)) * a < b

\* z = ceil(log2(a / b)) for 0 < a <= b: 2^(z - 1) < a / b <= 2^z, z <= 0
IsCeilLog2(z, a, b) ==
    /\ z <= 0
    /\ (2 ^ (0 - z)) * a <= b
    /\ b < (2 ^ (1 - z)) * a

\* the call passed a resolution > 0 alone and the zoom was derived from it
ZoomFromResolution ==
    /\ arg.resolution /\ ~arg.zoom
    /\ arg.res[1] > 0
    /\ zoom # << >>

\* C14 as stated: for every resolution > 0 the derived zoom is
\* floor(log2(156543.03392804097 / resolution)), also for a resolution above
\* 156543.03392804097.
C14_ZoomIsFloorLog2 ==
    ZoomFromResolution => IsFloorLog2(zoom[1], arg.res[2], arg.res[1])

\* C14 amended: the derived zoom is log2(156543.03392804097 / resolution)
\* with its fraction dropped: the floor of the logarithm for a resolution up
\* to 156543.03392804097 and its ceiling for a larger one.
C14_ZoomIsTruncatedLog2 ==
    ZoomFromResolution =>
        IF arg.res[1] <= arg.res[2]
        THEN IsFloorLog2(zoom[1], arg.res[2], arg.res[1])
        ELSE IsCeilLog2(zoom[1], arg.res[2], arg.res[1])

\* C14 witness: the resolution is 3 times the initial one, log2(1/3) is
\* about -1.58, and the derived zoom is -1
C14_Witness ==
    /\ ZoomFromResolution
    /\ arg.res = << 3, 1 >>
    /\ zoom = << -1 >>

\* C15: a call that is not skipped and passes a resolution <= 0 and no zoom
\* ends with the input error (ValueError, the error of the other argument
\* checks) before any tile task exists.
C15_NonPositiveResolutionRejected ==
    (arg.resolution /\ ~arg.zoom /\ arg.res[1] <= 0
        /\ pc \notin {"exists_check", "resolve_source", "check_bbox",
                      "check_zoom", "to_zoom", "Skip"})
        => (pc = "Failed" /\ exc = "ValueError" /\ futures = << >>)

\* the tile indices of the bounding box: [floor(x0), ceil(x1)) x
\* [floor(y0), ceil(y1)) of the sorted fractional corner coordinates
TileIndices ==
    (Floor(X0)..(Ceil(X1) - 1)) \X (Floor(Y0)..(Ceil(Y1) - 1))
\* the tile index in the URL of task i
Fetches(i) == << futures[i].url[2], futures[i].url[3] >>
\* the submission loop of the call is over
AllSubmitted ==
    \/ pc \in {"Compositing", "Shutdown"}
    \/ AfterExecutor
    \/ pc = "Failed" /\ raisedAt \in {"Compositing", "Cropping", "Georeferencing",
                                     "Reprojecting", "ConvertingToCOG"}
\* the executor of the call has been left
ExecutorLeft ==
    \/ AfterExecutor
    \/ pc = "Failed" /\ raisedAt \in {"Compositing", "Cropping", "Georeferencing",
                                     "Reprojecting", "ConvertingToCOG"}

\* C16: the tasks fetch exactly the tile indices of [floor(x0), ceil(x1)) x
\* [floor(y0), ceil(y1)): no task has an index outside that set, no two
\* tasks have the same index, once the submission loop is over every index
\* of the set has its task, and when the executor has been left every task
\* has made its GET.
C16_FetchedIndices ==
    /\ \A i \in 1..Len(futures) : Fetches(i) \in TileIndices
    /\ \A i, j \in 1..Len(futures) : Fetches(i) = Fetches(j) => i = j
    /\ AllSubmitted => {Fetches(i) : i \in 1..Len(futures)} = TileIndices
    /\ ExecutorLeft =>
          \A i \in 1..Len(futures) : futures[i].st = "done" /\ futures[i].tries >= 1

\* C16 witness: a bounding box that covers its first column and its last row
\* of tiles only in part, after all of its 4 tiles were fetched
C16_Witness ==
    /\ pc = "Done"
    /\ X0 % CoordDen # 0
    /\ Y1 % CoordDen # 0
    /\ Cardinality(TileIndices) = 4
    /\ Len(futures) = 4
    /\ \A i \in 1..Len(futures) : futures[i].tries >= 1

\* C17: the pipeline goes on to fetching and writing only after an
\* initialization of the EPSG:3857 reference that succeeded, at the first
\* import or at the one repeated after the search paths were set: whenever
\* tiles are indexed or fetched, or the output is written, the reference is
\* the one of EPSG:3857.
C17_NoProgressWithoutCrs ==
    (\/ pc \in {"Indexing", "Fetching", "Compositing", "Shutdown", "Cropping",
                "Georeferencing", "Return", "Reprojecting", "ConvertingToCOG",
                "Done"}
     \/ futures # << >>
     \/ file # file0)
        => wkt = "EPSG:3857"

\* C18: a reprojection that fails by a CRS error or a missing rasterio, and
\* a COG conversion that fails by a missing rio-cogeo, leave at the output
\* path the raster that was there when the step started: the one of the
\* georeferencing step, or the reprojected one before the COG conversion.
C18_FailedStepKeepsRaster ==
    [][(\/ pc = "Reprojecting" /\ env.reproj \in {"import", "crs"}
        \/ pc = "ConvertingToCOG" /\ env.cog = "missing")
          => (/\ pc' = "Failed"
              /\ file \in {"base", "warped"}
              /\ file' = file
              /\ gt' = gt)]_vars

\* C18 witness: the COG conversion has failed for want of rio-cogeo after a
\* reprojection, and the reprojected raster is at the output path
C18_Witness ==
    /\ pc = "Failed"
    /\ raisedAt = "ConvertingToCOG"
    /\ env.cog = "missing"
    /\ "Reprojecting" \in StagesSeen
    /\ file = "warped"

\* the EPSG:3857 projections of the two bbox corners as they were passed
ProjectedCorner0 == from4326_to3857(geo[1], geo[2])
ProjectedCorner1 == from4326_to3857(geo[3], geo[4])

\* C19: the geotransform written with the raster has the origin
\* (min(xp0, xp1), max(yp0, yp1)), both rotation terms 0, the pixel width
\* |xp1 - xp0| / width > 0 and the pixel height -|yp1 - yp0| / height < 0 of
\* the cropped image, so that the origin plus the pixel size times the image
\* size is the opposite corner (max(xp0, xp1), min(yp0, yp1)).
C19_GeoTransform ==
    gt # << >> =>
        LET xp0 == ProjectedCorner0[1]
            yp0 == ProjectedCorner0[2]
            xp1 == ProjectedCorner1[1]
            yp1 == ProjectedCorner1[2]
            pwidth == gt[2]
            pheight == gt[6]
        IN  /\ gt[1] = Min(xp0, xp1)
            /\ gt[4] = Max(yp0, yp1)
            /\ gt[3] = 0 /\ gt[5] = 0
            /\ pwidth[2] = img.w /\ pheight[2] = img.h
            /\ pwidth[1] = Abs(xp1 - xp0) /\ pheight[1] = 0 - Abs(yp1 - yp0)
            /\ pwidth[1] > 0 /\ pwidth[2] > 0
            /\ pheight[1] < 0 /\ pheight[2] > 0
            /\ gt[1] * pwidth[2] + pwidth[1] * img.w = Max(xp0, xp1) * pwidth[2]
            /\ gt[4] * pheight[2] + pheight[1] * img.h = Min(yp0, yp1) * pheight[2]

\* C19 witness: a raster was written for a bbox whose first corner is the
\* eastern one, west of the prime meridian, and the origin is the projection
\* of the second corner's x and not of the first
C19_Witness ==
    /\ pc = "Done"
    /\ gt # << >>
    /\ geo[1] > geo[3]
    /\ gt[1] = ProjectedCorner1[1]
    /\ gt[1] < 0
    /\ img.w >= 2

\* a get_tile task has ended by raising
FetchFailed == \E i \in 1..Len(futures) : futures[i].st = "done" /\ futures[i].res.t = "exc"

\* no submitted task is ever taken back: a task stays submitted, goes from
\* queued to running to done only, and the call fails only when all have run
NoTaskCancelled ==
    /\ \A i \in 1..Len(futures) :
          pc' # "exists_check" =>
            /\ i <= Len(futures')
            /\ futures[i].st = "running" => futures'[i].st \in {"running", "done"}
            /\ futures[i].st = "done" => futures'[i] = futures[i]
    /\ (pc = "Shutdown" /\ pc' = "Failed") =>
          /\ \A i \in 1..Len(futures) : futures[i].st = "done" /\ futures[i].tries >= 1
          /\ ret' = "raised"
          /\ file' = file0

\* C20 as stated: from the moment a tile fetch has failed fatally, the tasks
\* already submitted run to completion, none is cancelled, and no result is
\* pasted onto the canvas or returned.
C20_NothingPastedAfterFetchFailed ==
    [][/\ NoTaskCancelled
       /\ FetchFailed => (bigim' = bigim /\ img' = img /\ ret' # "image")]_vars

\* C20 amended: the tasks already submitted run to completion and none is
\* cancelled; from the moment the failure has been raised in the calling
\* thread by fut.result(), no result is pasted onto the canvas, and nothing
\* is returned.
C20_NothingPastedAfterRaise ==
    [][/\ NoTaskCancelled
       /\ exc # "" => (k' = k /\ bigim' = bigim /\ img' = img)
       /\ FetchFailed => ret' # "image"]_vars

\* C20 witness: the first of more tiles than worker threads failed, the call
\* has failed, and every later tile was fetched and none of them pasted
C20_Witness ==
    /\ pc = "Failed"
    /\ Len(futures) > PoolSize
    /\ k = 0
    /\ futures[1].res.t = "exc"
    /\ bigim = NoImage
    /\ \A i \in 2..Len(futures) : futures[i].st = "done" /\ futures[i].res.t = "bytes"

\* the tiles of which the canvas holds pixels
PastedTiles == {bigim.px[p] : p \in DOMAIN bigim.px} \ {Blank}

\* C21: the canvas is RGB unless a tile pasted so far is RGBA, and RGBA as
\* soon as one is, whatever the order of RGB and RGBA tiles.
C21_CanvasModePromotion ==
    PastedTiles # {} =>
        bigim.mode = IF \E i \in PastedTiles : srv[i].body \notin RgbBodies
                     THEN "RGBA" ELSE "RGB"

\* the result of task i is no image: a 404 or an empty body
AbsentTile(i) == futures[i].res.t = "none"
\* the image of task i has an alpha band that is 0 everywhere
FullyTransparent(i) ==
    LET extrema == Extrema(futures[i].res.body)
    IN  Len(extrema) > 3 /\ extrema[4] = << 0, 0 >>
\* the three colour bands of the image of task i are 0 everywhere
AllBlack(i) ==
    LET extrema == Extrema(futures[i].res.body)
    IN  \A b \in 1..3 : extrema[b] = << 0, 0 >>
\* the image of task i has the mode RGB
RgbTile(i) == futures[i].res.body \in RgbBodies

\* C22 as stated: a tile the paste loop has taken is left unpasted if and
\* only if it is absent or fully transparent.
C22_UnpastedIffAbsentOrTransparent ==
    \A i \in 1..k :
        (i \notin PastedTiles) <=> (AbsentTile(i) \/ FullyTransparent(i))

\* C22 amended: a tile the paste loop has taken is left unpasted if and only
\* if it is absent, or its mode is not RGB and it is fully transparent or
\* black in its three colour bands; an RGB tile is pasted also when black.
C22_UnpastedIffAbsentOrEmpty ==
    \A i \in 1..k :
        (i \notin PastedTiles) <=>
            (\/ AbsentTile(i)
             \/ ~RgbTile(i) /\ (FullyTransparent(i) \/ AllBlack(i)))

\* C22 witness: of two tiles taken by the paste loop, an opaque black RGBA
\* one was left unpasted and a black RGB one was pasted
C22_Witness ==
    /\ k = 2
    /\ futures[1].res.t = "bytes" /\ futures[1].res.body = "black"
    /\ futures[2].res.t = "bytes" /\ futures[2].res.body = "night"
    /\ PastedTiles = {2}

\* the canvas was cropped in this call
Cropped == bigim.mode # "none" /\ img.mode # "none"
\* round(tileWidth * (x0 - xMin)), round(tileHeight * (y0 - yMin))
CropX == Round(base_size[1] * (X0 - CoordDen * Floor(X0)), CoordDen)
CropY == Round(base_size[2] * (Y0 - CoordDen * Floor(Y0)), CoordDen)
\* round(tileWidth * (x1 - x0)), round(tileHeight * (y1 - y0))
CropWidth == Round(base_size[1] * (X1 - X0), CoordDen)
CropHeight == Round(base_size[2] * (Y1 - Y0), CoordDen)

\* C23: the cropped image has the size (round(tileWidth * (x1 - x0)),
\* round(tileHeight * (y1 - y0))) and its pixel (i, j) is the canvas pixel
\* (round(tileWidth * (x0 - xMin)) + i, round(tileHeight * (y0 - yMin)) + j),
\* with tileWidth and tileHeight the size of the first decoded tile and x0,
\* y0, x1, y1 the sorted fractional tile coordinates.
C23_CropRectangle ==
    Cropped =>
        /\ base_size = << tsize, tsize >>
        /\ img.w = CropWidth /\ img.h = CropHeight
        /\ DOMAIN img.px = (0..(CropWidth - 1)) \X (0..(CropHeight - 1))
        /\ \A p \in DOMAIN img.px :
              << CropX + p[1], CropY + p[2] >> \in DOMAIN bigim.px
                 => img.px[p] = bigim.px[<< CropX + p[1], CropY + p[2] >>]

\* C23 witness: a raster was written whose crop starts inside the first tile
\* and is smaller than the canvas both ways, for a bbox given east first
C23_Witness ==
    /\ pc = "Done"
    /\ Cropped
    /\ CropX > 0
    /\ geo[1] > geo[3]
    /\ img.w >= 2 /\ img.w < bigim.w
    /\ img.h >= 2 /\ img.h < bigim.h

\* C24: the crop rectangle lies inside the canvas.
C24_CropInsideCanvas ==
    Cropped =>
        /\ CropX >= 0 /\ CropY >= 0
        /\ CropX + img.w <= bigim.w
        /\ CropY + img.h <= bigim.h

\* C25: for a bbox with west < east and south < north the cropped image is at
\* least one pixel wide and high, and the raster is created.
C25_CropNotEmpty ==
    (geo[1] < geo[3] /\ geo[2] > geo[4]) =>
        /\ Cropped => (img.w >= 1 /\ img.h >= 1)
        /\ ~(pc = "Failed" /\ raisedAt = "Georeferencing")

\* C26: cropping never starts without a canvas, and a call all of whose
\* tiles are absent (404 or empty body) does not fail: it gets through the
\* cropping with a blank image.
C26_AllAbsentCompletes ==
    /\ pc = "Cropping" => bigim.mode # "none"
    /\ ( /\ Len(corners) > 0
         /\ \A i \in 1..Len(corners) : AbsentResp(i)
         /\ \A i \in 1..Len(futures) : ~Exhausted(i)
         /\ PostProcessingOk )
       => /\ pc # "Failed"
          /\ AfterExecutor /\ pc # "Cropping" =>
                (img.mode # "none" /\ \A p \in DOMAIN img.px : img.px[p] = Blank)

\* C27: the file at the output path is written only after every tile result
\* was taken by the paste loop without an exception: while the tiles are
\* indexed, fetched, pasted and cropped the file is the one the call found,
\* and it still is when the call has failed there.
C27_FailedFetchKeepsFile ==
    /\ file # file0 =>
          /\ Len(futures) = Len(corners) /\ k = Len(futures)
          /\ \A i \in 1..Len(futures) : futures[i].st = "done" /\ futures[i].res.t # "exc"
          /\ img.mode # "none"
    /\ pc \in {"Indexing", "Fetching", "Compositing", "Shutdown", "Cropping"}
          => file = file0
    /\ (pc = "Failed" /\ raisedAt \in {"Compositing", "Cropping"}) => file = file0

\* C27 witness: a call with overwrite=True over an existing file has failed
\* on a tile, and the file is the old one
C27_Witness ==
    /\ pc = "Failed"
    /\ raisedAt = "Compositing"
    /\ arg.overwrite
    /\ file0 = "old"
    /\ file = "old"
    /\ \E i \in 1..Len(futures) : futures[i].res.t = "exc"

\* an argument that one of the input checks rejects
InvalidInput ==
    \/ arg.source = "nonstr"
    \/ arg.bbox # "list4"
    \/ arg.zoom = arg.resolution

\* C28: when the output exists and overwrite is false, a call with a
\* malformed bbox, with zoom and resolution both given or both missing, or
\* with a source that is no string returns None from the exists check: it
\* never reaches an input check and raises nothing.
C28_SkipBeforeValidation ==
    (InvalidInput /\ ~arg.overwrite /\ file0 # "absent") =>
        /\ pc \in {"exists_check", "Skip"}
        /\ exc = "" /\ raisedAt = ""
        /\ pc = "Skip" => (ret = "none" /\ file = file0)

\* C28 witness: a call with all three arguments invalid was skipped
C28_Witness ==
    /\ pc = "Skip"
    /\ ret = "none"
    /\ arg.source = "nonstr"
    /\ arg.bbox = "tuple4"
    /\ arg.zoom /\ arg.resolution

\* C29: when every HTTP attempt ends, every call ends in Done, Failed or the
\* skip; no task makes more than 3 GET attempts, the calling thread waits
\* only for a task that was submitted, and when the call has ended every
\* submitted task has completed.
C29_Terminates ==
    /\ [](\A i \in 1..Len(futures) : futures[i].tries <= 3)
    /\ []((pc = "Compositing" /\ k < Len(futures)) => NextFuture \in 1..Len(futures))
    /\ []((Terminal \/ AfterExecutor) => AllDone)
    /\ (~Terminal ~> Terminal)

\* C29 witness: a call has ended in Done after a task made 3 GET attempts
\* and another one none that raised
C29_Witness ==
    /\ pc = "Done"
    /\ Len(futures) >= 2
    /\ \E i \in 1..Len(futures) : futures[i].tries = 3
    /\ \E i \in 1..Len(futures) : futures[i].tries = 1

-----------------------------------------------------------------------------
(* UrbanDataSet.loopUnitChat: UrbanDataSet.py lines 231-425 *)

\* the largest number of units of self.units
MaxUnits == 2

Types == {"top", "street", "both"}
\* the keys a prompt dictionary may have
PromptKeys == {"top", "street"}
\* the arguments the result lists depend on; epsg and key say whether epsg
\* and self.mapillary_key are not None
ChatArgs ==
    [type : Types, saveImg : BOOLEAN, multi : BOOLEAN, epsg : BOOLEAN,
     key : BOOLEAN, prompt : SUBSET PromptKeys]
\* a unit: whether getSV finds a street view image for its centroid, and
\* whether tms_to_geotiff and rasterio produce its top view or raise
Units == [sv : BOOLEAN, top : {"ok", "raises"}]
UnitSeqs == UNION {[1..n -> Units] : n \in 0..MaxUnits}

\* a call of tms_to_geotiff that has not started: the one of lines 371-373
IdleTiles ==
    /\ arg = DefaultArg
    /\ env = DefaultEnv
    /\ file = "absent"
    /\ geo = OneTile
    /\ tsize = 1
    /\ srv = [j \in 1..1 |-> GoodTile]
    /\ file0 = file
    /\ calls = 1
    /\ pc = "exists_check"
    /\ stages = << "Validating" >>
    /\ wkt = "unset"
    /\ corners = << >>
    /\ futures = << >>
    /\ k = 0
    /\ bigim = NoImage
    /\ base_size = << DefaultTileSize, DefaultTileSize >>
    /\ img = NoImage
    /\ exc = ""
    /\ raisedAt = ""
    /\ ret = "nothing yet"
    /\ faults = 0
    /\ zoom = << >>
    /\ gt = << >>

\* lines 311-317: dic and the two image dictionaries before the loop
ChatInit ==
    /\ IdleTiles
    /\ chat \in ChatArgs
    /\ units \in UnitSeqs
    /\ unit = 0
    /\ dic = [key \in {"lon", "lat"} |-> << >>]
    /\ top_view_imgs = << >>
    /\ street_view_imgs = << >>
    /\ chatpc = "for"
    /\ chatexc = ""

\* raise e out of loopUnitChat
ChatRaise(e) ==
    /\ chatpc' = "raised"
    /\ chatexc' = e

\* if i == 0: dic[key] = []
InitList(d, key) ==
    IF unit = 1 THEN [x \in DOMAIN d \cup {key} |-> IF x = key THEN << >> ELSE d[x]]
    ELSE d

\* the for statement and lines 319-325: the next unit, its centroid appended
\* to 'lon' and 'lat' (a centroid is written as the number of its unit)
NextUnit ==
    /\ chatpc = "for"
    /\ IF unit < Len(units)
       THEN /\ unit' = unit + 1
            /\ dic' = [dic EXCEPT !["lon"] = Append(@, unit + 1),
                                  !["lat"] = Append(@, unit + 1)]
            /\ chatpc' = "street"
       ELSE /\ chatpc' = "finish"
            /\ UNCHANGED << unit, dic >>
    /\ UNCHANGED << chat, units, top_view_imgs, street_view_imgs, chatexc >>
    /\ UNCHANGED tilevars

\* the condition of line 328
StreetWanted ==
    chat.type \in {"street", "both"} /\ chat.epsg /\ chat.key

\* lines 348-351: res if multi, else res.responses, of the current unit
StreetAnswer ==
    IF chat.multi THEN << unit, "res" >> ELSE << unit, "responses" >>

\* lines 327-355: process street view image
StreetView ==
    /\ chatpc = "street"
    /\ IF ~StreetWanted
       THEN /\ chatpc' = "top"
            /\ UNCHANGED << dic, street_view_imgs, chatexc >>
       ELSE IF ~units[unit].sv
       THEN \* len(input_svis) == 0: the unit is dropped
            /\ dic' = [dic EXCEPT !["lon"] = SubSeq(@, 1, Len(@) - 1),
                                  !["lat"] = SubSeq(@, 1, Len(@) - 1)]
            /\ chatpc' = "for"
            /\ UNCHANGED << street_view_imgs, chatexc >>
       ELSE /\ street_view_imgs' =
                   IF chat.saveImg THEN Append(street_view_imgs, unit)
                   ELSE street_view_imgs
            /\ IF "street" \notin chat.prompt
               THEN \* prompt["street"]
                    /\ ChatRaise("KeyError")
                    /\ UNCHANGED dic
               ELSE IF "street_view" \notin DOMAIN InitList(dic, "street_view")
               THEN \* dic['street_view'] += ... without the list of i == 0
                    /\ ChatRaise("KeyError")
                    /\ UNCHANGED dic
               ELSE /\ dic' = [InitList(dic, "street_view") EXCEPT
                                   !["street_view"] = Append(@, StreetAnswer)]
                    /\ chatpc' = "top"
                    /\ UNCHANGED chatexc
    /\ UNCHANGED << chat, units, unit, top_view_imgs >>
    /\ UNCHANGED tilevars

\* lines 357-416: process aerial image
TopView ==
    /\ chatpc = "top"
    /\ IF chat.type \notin {"top", "both"}
       THEN /\ chatpc' = "for"
            /\ UNCHANGED << dic, top_view_imgs, chatexc >>
       ELSE IF units[unit].top = "raises"
       THEN \* tms_to_geotiff, rasterio.open or mask raises
            /\ ChatRaise("Exception")
            /\ UNCHANGED << dic, top_view_imgs >>
       ELSE /\ top_view_imgs' = Append(top_view_imgs, unit)
            /\ IF "top" \notin chat.prompt
               THEN \* prompt["top"]
                    /\ ChatRaise("KeyError")
                    /\ UNCHANGED dic
               ELSE IF ~chat.saveImg
               THEN /\ dic' = InitList(dic, "top_view")
                    /\ chatpc' = "for"
                    /\ UNCHANGED chatexc
               ELSE IF "top_view" \notin DOMAIN InitList(dic, "top_view")
               THEN /\ ChatRaise("KeyError")
                    /\ UNCHANGED dic
               ELSE /\ dic' = [InitList(dic, "top_view") EXCEPT
                                   !["top_view"] = Append(@, unit)]
                    /\ chatpc' = "for"
                    /\ UNCHANGED chatexc
    /\ UNCHANGED << chat, units, unit, street_view_imgs >>
    /\ UNCHANGED tilevars

\* lines 418-425: self.results is set and dic returned
ChatReturn ==
    /\ chatpc = "finish"
    /\ chatpc' = "returned"
    /\ UNCHANGED << chat, units, unit, dic, top_view_imgs, street_view_imgs,
                    chatexc >>
    /\ UNCHANGED tilevars

ChatNext ==
    \/ NextUnit
    \/ StreetView
    \/ TopView
    \/ ChatReturn

ChatSpec == ChatInit /\ [][ChatNext]_vars

\* the units loopUnitChat kept: all of them, or those with a street view
KeptUnits ==
    IF StreetWanted THEN SelectSeq(dic["lon"], LAMBDA u : units[u].sv)
    ELSE dic["lon"]

\* C30: when loopUnitChat has returned, 'lon', 'lat' and the 'top_view' and
\* 'street_view' lists it made have the same length, one entry per unit kept.
C30_ListsAligned ==
    chatpc = "returned" =>
        /\ Len(dic["lat"]) = Len(dic["lon"])
        /\ dic["lon"] = KeptUnits
        /\ \A key \in DOMAIN dic : Len(dic[key]) = Len(dic["lon"])

====
